---- MODULE Spec2Model ----
(***************************************************************************)
(* A model of MLBAPP.py, the Streamlit "MLB Player Trend Analyzer".        *)
(*                                                                         *)
(* A DataFrame is a record [columns, rows]: the set of column names it     *)
(* declares and the sequence of its rows.  Text the code inspects (team    *)
(* codes, the opponent filter, the threshold input, raw rbi cells) is a    *)
(* sequence of one-character strings; an outcome label, only ever compared *)
(* for equality, is a string.  A floating-point average is an exact        *)
(* rational [nan, n, d]; NaN is the mean over zero rows.                   *)
(***************************************************************************)
EXTENDS Integers, Sequences, FiniteSets, TLC

VARIABLES
    today,          \* datetime.date.today(), a day number
    provider,       \* the provider's data: [rbi_col, events_col, rows]
    cache_ids,      \* st.cache_data memo of get_player_id
    cache_statcast, \* st.cache_data memo of get_statcast_data
    pc,             \* position of the script run
    player_name,    \* st.text_input: the player name
    opponent_input, \* st.text_input: the opponent filter
    category,       \* st.selectbox: the selected category (short name)
    trend_input,    \* st.text_input: the comma-separated thresholds
    player_id,      \* result of get_player_id
    statcast_df,    \* result of get_statcast_data
    served,         \* bookkeeping: how statcast_df was obtained in this run
    df_filtered,    \* statcast_df after the opponent filter
    all_games,      \* the aggregated GameStatLines (line 164)
    game_stats,     \* the last-10 selection (line 165)
    trend_values,   \* the parsed thresholds
    hit_rates,      \* result of calculate_hit_rates
    averages,       \* the three averages handed to predict_next_game_stat
    stat_line,      \* the predicted stat line
    error           \* the exception shown by the catch-all, or NoError

vars == <<today, provider, cache_ids, cache_statcast, pc, player_name,
          opponent_input, category, trend_input, player_id, statcast_df,
          served, df_filtered, all_games, game_stats, trend_values,
          hit_rates, averages, stat_line, error>>

-----------------------------------------------------------------------------
(* Bounds of the model. *)

\* rows of a provider response in SpecPipeline
MaxRows == 2
\* game dates 1..MaxDate in SpecLast
MaxDate == 11
\* the first DoubleDays dates may hold games against two opponents
DoubleDays == 2
\* a game's category value ranges over 0..MaxVal in SpecTrend
MaxVal == 2
\* length of the game sequence in SpecTrend
MaxGames == 10
\* the first FreeGames games of a sequence take every value of 0..MaxVal
FreeGames == 3
\* averages range over -1/AvgDen .. MaxAvgNum/AvgDen in SpecPredict
MaxAvgNum == 30
AvgDen == 20
\* number of day changes in Spec
MaxAdvance == 1

(* Constants of the program. *)
WindowDays == 60
HeadN == 10
Last10 == 10
Last5 == 5
Last3 == 3

-----------------------------------------------------------------------------
(* Text *)

Null == "<NA>"
NoError == "NoError"
None == "None"

Min(a, b) == IF a <= b THEN a ELSE b
Max(a, b) == IF a >= b THEN a ELSE b

Range(s) == {s[i] : i \in 1..Len(s)}

\* str.lower() on the characters the model uses
Lower(c) ==
    CASE c = "S" -> "s" [] c = "F" -> "f" [] c = "D" -> "d"
      [] c = "N" -> "n" [] c = "Y" -> "y" [] c = "L" -> "l"
      [] c = "A" -> "a" [] OTHER -> c

\* Series.str.contains(needle, case=False) on one cell
StrContains(hay, needle) ==
    \E k \in 0..(Len(hay) - Len(needle)) :
        \A i \in 1..Len(needle) : Lower(hay[k + i]) = Lower(needle[i])

CharCode(c) ==
    CASE c = "A" -> 1 [] c = "D" -> 2 [] c = "F" -> 3 [] c = "L" -> 4
      [] c = "N" -> 5 [] c = "S" -> 6 [] c = "Y" -> 7 [] OTHER -> 8

\* lexicographic order of two strings, as the group keys are sorted
RECURSIVE StrLess(_, _)
StrLess(a, b) ==
    IF Len(b) = 0 THEN FALSE
    ELSE IF Len(a) = 0 THEN TRUE
    ELSE IF CharCode(a[1]) # CharCode(b[1]) THEN CharCode(a[1]) < CharCode(b[1])
    ELSE StrLess(Tail(a), Tail(b))

IsDigit(c) == c \in {"0", "1", "2", "3", "4", "5", "6", "7", "8", "9"}

DigitVal(c) ==
    CASE c = "0" -> 0 [] c = "1" -> 1 [] c = "2" -> 2 [] c = "3" -> 3
      [] c = "4" -> 4 [] c = "5" -> 5 [] c = "6" -> 6 [] c = "7" -> 7
      [] c = "8" -> 8 [] OTHER -> 9

\* str.isdigit(): non-empty and every character a digit
StrIsDigit(s) == Len(s) > 0 /\ \A i \in 1..Len(s) : IsDigit(s[i])

\* int(s) for a string of digits
RECURSIVE ParseInt(_)
ParseInt(s) ==
    IF Len(s) = 0 THEN 0
    ELSE 10 * ParseInt(SubSeq(s, 1, Len(s) - 1)) + DigitVal(s[Len(s)])

\* str.strip() of spaces
RECURSIVE Strip(_)
Strip(s) ==
    IF Len(s) = 0 THEN s
    ELSE IF s[1] = " " THEN Strip(Tail(s))
    ELSE IF s[Len(s)] = " " THEN Strip(SubSeq(s, 1, Len(s) - 1))
    ELSE s

\* str.split(sep): the pieces between the separators (always at least one)
RECURSIVE Split(_, _)
Split(s, sep) ==
    IF \A i \in 1..Len(s) : s[i] # sep THEN <<s>>
    ELSE LET k == CHOOSE i \in 1..Len(s) :
                      s[i] = sep /\ \A j \in 1..(i - 1) : s[j] # sep
         IN  <<SubSeq(s, 1, k - 1)>> \o Split(SubSeq(s, k + 1, Len(s)), sep)

-----------------------------------------------------------------------------
(* Data frames *)

Flags == <<"1B", "2B", "3B", "HR">>
SumColumns == {"1B", "2B", "3B", "HR", "TB", "H", "RBI"}

RawColumns ==
    {"batter", "game_date", "events", "description", "pitch_name",
     "launch_speed", "launch_angle", "hit_distance_sc", "inning_topbot",
     "home_team", "away_team"}

NoFrame == [columns |-> {}, rows |-> <<>>]

\* line 24: pd.DataFrame(columns=[...])
EmptyResult ==
    [columns |-> {"game_date", "1B", "2B", "3B", "HR", "TB", "H", "RBI",
                  "opponent"},
     rows |-> <<>>]

Returned(df) == [raised |-> FALSE, err |-> NoError, df |-> df]
Raised(e) == [raised |-> TRUE, err |-> e, df |-> NoFrame]

\* lines 29-32
PlayerTeam(row) ==
    IF row.inning_topbot = "Top" THEN row.away_team ELSE row.home_team
Opponent(row) ==
    IF row.inning_topbot = "Top" THEN row.home_team ELSE row.away_team

\* lines 35-38: (df["events"] == label).astype(int)
EventFlag(events, label) == IF events = label THEN 1 ELSE 0

\* a home run weighed as a triple
TotalBasesTripleHR(f1, f2, f3, f4) == f1 + f2 * 2 + f3 * 3 + f4 * 3

\* line 39
TotalBases(f1, f2, f3, f4) == f1 + f2 * 2 + f3 * 3 + f4 * 4

\* line 40
HitsOf(f1, f2, f3, f4) == f1 + f2 + f3 + f4

\* line 44: pd.to_numeric(cell, errors="coerce"), then fillna(0).astype(int)
RbiValue(cell) == IF StrIsDigit(cell) THEN ParseInt(cell) ELSE 0

\* lines 29-46 on one row
ClassifyRow(row, has_rbi) ==
    LET f1 == EventFlag(row.events, "single")
        f2 == EventFlag(row.events, "double")
        f3 == EventFlag(row.events, "triple")
        f4 == EventFlag(row.events, "home_run")
    IN  [batter |-> row.batter,
         game_date |-> row.game_date,
         inning_topbot |-> row.inning_topbot,
         home_team |-> row.home_team,
         away_team |-> row.away_team,
         events |-> row.events,
         rbi |-> row.rbi,
         player_team |-> PlayerTeam(row),
         opponent |-> Opponent(row),
         b1 |-> f1, b2 |-> f2, b3 |-> f3, hr |-> f4,
         tb |-> TotalBases(f1, f2, f3, f4),
         h |-> HitsOf(f1, f2, f3, f4),
         rbis |-> IF has_rbi THEN RbiValue(row.rbi) ELSE 0]

ClassifiedColumns(df) ==
    df.columns \cup {"player_team", "opponent", "1B", "2B", "3B", "HR", "TB",
                     "H", "RBI"}

\* lines 23-48: what get_statcast_data makes of the provider's response.
\* With every events cell null, df.apply(axis=1) runs on a frame of zero rows
\* and yields a frame, not a column: the assignment of line 29 then raises or
\* goes through, depending on the pandas build.
Classify(df) ==
    IF Len(df.rows) = 0 \/ "events" \notin df.columns
    THEN {Returned(EmptyResult)}
    ELSE LET kept == SelectSeq(df.rows, LAMBDA r : r.events # Null)
             out == [columns |-> ClassifiedColumns(df),
                     rows |-> [i \in 1..Len(kept) |->
                                  ClassifyRow(kept[i], "rbi" \in df.columns)]]
         IN  IF Len(kept) = 0
             THEN {Returned(out), Raised("ValueError")}
             ELSE {Returned(out)}

\* value of a summed column in a classified row or a GameStatLine
Field(r, col) ==
    CASE col = "1B" -> r.b1 [] col = "2B" -> r.b2 [] col = "3B" -> r.b3
      [] col = "HR" -> r.hr [] col = "TB" -> r.tb [] col = "H" -> r.h
      [] OTHER -> r.rbis

-----------------------------------------------------------------------------
(* Aggregation: groupby(...)[...].sum().reset_index() *)

KeyOf(r) == <<r.game_date, r.opponent>>

KeyLess(k1, k2) ==
    \/ k1[1] < k2[1]
    \/ k1[1] = k2[1] /\ StrLess(k1[2], k2[2])

\* the group keys in sorted order (groupby sorts its keys)
RECURSIVE SortedKeys(_)
SortedKeys(K) ==
    IF K = {} THEN <<>>
    ELSE LET k == CHOOSE x \in K : \A y \in K \ {x} : KeyLess(x, y)
         IN  <<k>> \o SortedKeys(K \ {k})

RECURSIVE SumCol(_, _)
SumCol(rows, col) ==
    IF Len(rows) = 0 THEN 0
    ELSE Field(rows[1], col) + SumCol(Tail(rows), col)

\* one group's sums
GameLine(rows, k) ==
    [game_date |-> k[1], opponent |-> k[2],
     b1 |-> SumCol(rows, "1B"), b2 |-> SumCol(rows, "2B"),
     b3 |-> SumCol(rows, "3B"), hr |-> SumCol(rows, "HR"),
     tb |-> SumCol(rows, "TB"), h |-> SumCol(rows, "H"),
     rbis |-> SumCol(rows, "RBI")]

\* grouping by the game date alone
GroupByDateOnly(rows) ==
    LET keys == SortedKeys({<<r.game_date, <<>>>> : r \in Range(rows)})
    IN  [i \in 1..Len(keys) |->
            GameLine(SelectSeq(rows, LAMBDA r : r.game_date = keys[i][1]),
                     keys[i])]

\* the opponent left out of the group key
GroupByGameDateOnly(rows) ==
    LET keys == SortedKeys({<<r.game_date, rows[1].opponent>> :
                               r \in Range(rows)})
    IN  [i \in 1..Len(keys) |->
            GameLine(SelectSeq(rows, LAMBDA r : r.game_date = keys[i][1]),
                     keys[i])]

\* line 164: groupby(["game_date", "opponent"])[SumColumns].sum().reset_index()
GroupByGame(rows) ==
    LET keys == SortedKeys({KeyOf(r) : r \in Range(rows)})
    IN  [i \in 1..Len(keys) |->
            GameLine(SelectSeq(rows, LAMBDA r : KeyOf(r) = keys[i]), keys[i])]

\* lines 199-200: groupby("game_date")[[cat]].sum()[cat]
DailySums(rows, cat) ==
    LET days == GroupByDateOnly(rows)
    IN  [i \in 1..Len(days) |-> Field(days[i], cat)]

-----------------------------------------------------------------------------
(* The last-10 selection, line 165 *)

\* sort_values("game_date", ascending=...): the default sort is not stable, so
\* rows of equal date come in any order; the rows of a frame of GameStatLines
\* are distinct, and the set of them determines the outcomes
RECURSIVE SortValues(_, _)
SortValues(S, ascending) ==
    IF S = {} THEN {<<>>}
    ELSE LET firsts == {x \in S : \A y \in S :
                           IF ascending THEN x.game_date <= y.game_date
                                        ELSE x.game_date >= y.game_date}
         IN  UNION {{<<x>> \o rest : rest \in SortValues(S \ {x}, ascending)} :
                     x \in firsts}

\* DataFrame.head(n)
HeadRows(s, n) == SubSeq(s, 1, Min(n, Len(s)))

\* the first sort ascending: the oldest lines taken instead of the newest
LastGamesOldest(lines) ==
    UNION {SortValues(Range(HeadRows(s, HeadN)), TRUE) :
             s \in SortValues(Range(lines), TRUE)}

\* line 165: sort_values(ascending=False).head(10).sort_values("game_date")
LastGames(lines) ==
    UNION {SortValues(Range(HeadRows(s, HeadN)), TRUE) :
             s \in SortValues(Range(lines), FALSE)}

-----------------------------------------------------------------------------
(* The trend evaluator *)

\* line 161: [int(x.strip()) for x in s.split(",") if x.strip().isdigit()]
ParseTrendValues(input) ==
    LET kept == SelectSeq(Split(input, ","), LAMBDA x : StrIsDigit(Strip(x)))
    IN  [i \in 1..Len(kept) |-> ParseInt(Strip(kept[i]))]

\* a game counted only when it exceeds the threshold
HitFlagStrict(value, t) == value > t

\* line 72: df[category] >= t
HitFlag(value, t) == value >= t

\* the first n rows instead of the last
TailRowsFromStart(s, n) == SubSeq(s, 1, Min(n, Len(s)))

\* Series.iloc[-n:]
TailRows(s, n) == SubSeq(s, Max(1, Len(s) - n + 1), Len(s))

\* Series.sum() of booleans
CountTrue(hits) == Cardinality({i \in 1..Len(hits) : hits[i]})

\* n/d to the nearest integer, a tie to the even one (format spec ".0f")
RoundHalfEven(n, d) ==
    LET q == n \div d
        r == n % d
    IN  IF 2 * r > d \/ (2 * r = d /\ q % 2 = 1) THEN q + 1 ELSE q

\* lines 75-77: f"{count}/{W} ({(count/W)*100:.0f}%)"
WindowCell(hits, W) ==
    LET count == CountTrue(TailRows(hits, W))
    IN  [count |-> count, denom |-> W, pct |-> RoundHalfEven(count * 100, W)]

\* lines 69-79
calculate_hit_rates(df, cat, thresholds) ==
    [k \in 1..Len(thresholds) |->
        LET t == thresholds[k]
            hits == [i \in 1..Len(df) |-> HitFlag(Field(df[i], cat), t)]
        IN  [category |-> cat, t |-> t,
             last10 |-> WindowCell(hits, Last10),
             last5 |-> WindowCell(hits, Last5),
             last3 |-> WindowCell(hits, Last3)]]

\* lines 147-154: category_display_map
Categories == {"1B", "2B", "3B", "HR", "TB", "H"}

-----------------------------------------------------------------------------
(* The predictor *)

\* a float that is a number: the rational n/d, d > 0
Avg(n, d) == [nan |-> FALSE, n |-> n, d |-> d]
NaN == [nan |-> TRUE, n |-> 0, d |-> 1]

\* a value of two decimals: c hundredths
Hundredths(c) == [nan |-> FALSE, c |-> c]
NaNValue == [nan |-> TRUE, c |-> 0]

RECURSIVE SumSeq(_)
SumSeq(values) ==
    IF Len(values) = 0 THEN 0 ELSE values[1] + SumSeq(Tail(values))

\* Series.mean(): NaN over zero rows
Mean(values) ==
    IF Len(values) = 0 THEN NaN ELSE Avg(SumSeq(values), Len(values))

\* round(x, 2) of the float x = n/d, in hundredths.  The float carries a
\* representation error far smaller than the distance of any non-tie n/d of
\* the model to a tie, so a value that is no tie rounds to its nearest
\* hundredth; an exact tie goes to either neighbour.
Round2(n, d) ==
    LET q == (100 * n) \div d
        r == (100 * n) % d
    IN  IF 2 * r < d THEN {q}
        ELSE IF 2 * r > d THEN {q + 1}
        ELSE {q, q + 1}

\* the season average weighted one half
WeightsHeavySeason == <<5, 3, 3>>

\* line 82, in tenths
Weights == <<4, 3, 3>>

\* lines 81-87: the values the call can return
predict_next_game_stat(season_avg, vs_team_avg, recent_avg) ==
    IF season_avg.nan \/ vs_team_avg.nan \/ recent_avg.nan
    THEN {NaNValue}
    ELSE LET n == Weights[1] * season_avg.n * vs_team_avg.d * recent_avg.d
                  + Weights[2] * vs_team_avg.n * season_avg.d * recent_avg.d
                  + Weights[3] * recent_avg.n * season_avg.d * vs_team_avg.d
             d == 10 * season_avg.d * vs_team_avg.d * recent_avg.d
         IN  {Hundredths(c) : c \in Round2(n, d)}

-----------------------------------------------------------------------------
(* The provider's data *)

SF == <<"S", "F">>
SD == <<"S", "D">>
LAD == <<"L", "A", "D">>

\* a game at SF (batting in the top half) and a home game against SD
Matchups ==
    {[inning_topbot |-> "Top", home_team |-> SF, away_team |-> LAD],
     [inning_topbot |-> "Bot", home_team |-> LAD, away_team |-> SD]}

RawRow(b, d, m, e, r) ==
    [batter |-> b, game_date |-> d, inning_topbot |-> m.inning_topbot,
     home_team |-> m.home_team, away_team |-> m.away_team, events |-> e,
     rbi |-> r]

\* the response of statcast_batter as a frame: the provider's columns, with
\* or without an rbi column, and without the events column when the provider
\* serves another schema
ResponseFrame(rbi_col, events_col, rows) ==
    [columns |-> (RawColumns \ (IF events_col THEN {} ELSE {"events"}))
                    \cup (IF rbi_col THEN {"rbi"} ELSE {}),
     rows |-> rows]

SeqsUpTo(S, n) == UNION {[1..k -> S] : k \in 0..n}

-----------------------------------------------------------------------------
(* States shared by the specifications *)

\* how the run got statcast_df: from the memo or from the provider, for which
\* argument, for the window ending on which day, asked on which day
NotServed ==
    [from_cache |-> FALSE, queried |-> FALSE, key |-> None, end |-> 0 - 1,
     asked |-> 0 - 1]
NoCache == <<>>

BlankWorld ==
    /\ today = WindowDays
    /\ provider = [rbi_col |-> FALSE, events_col |-> TRUE, rows |-> <<>>]
    /\ cache_ids = NoCache
    /\ cache_statcast = NoCache

BlankInputs ==
    /\ player_name = <<>>
    /\ opponent_input = <<>>
    /\ category = "HR"
    /\ trend_input = <<>>

BlankRun ==
    /\ player_id = None
    /\ statcast_df = NoFrame
    /\ served = NotServed
    /\ df_filtered = NoFrame
    /\ all_games = <<>>
    /\ game_stats = <<>>
    /\ trend_values = <<>>
    /\ hit_rates = <<>>
    /\ averages = <<>>
    /\ stat_line = <<>>
    /\ error = NoError

worldVars == <<today, provider, cache_ids, cache_statcast>>
inputVars == <<player_name, opponent_input, category, trend_input>>

-----------------------------------------------------------------------------
(* Classification and aggregation of any provider response *)

Ohtani == "660271"

PipelineEvents ==
    {"single", "double", "triple", "home_run", "strikeout", Null}

PipelineRows ==
    {RawRow(Ohtani, d, m, e, r) :
        d \in {WindowDays - 1, WindowDays}, m \in Matchups,
        e \in PipelineEvents, r \in {<<"1">>, <<"x">>}}

InitPipeline ==
    /\ today = WindowDays
    /\ provider \in {[rbi_col |-> b, events_col |-> e, rows |-> s] :
                        b \in BOOLEAN, e \in BOOLEAN,
                        s \in SeqsUpTo(PipelineRows, MaxRows)}
    /\ cache_ids = NoCache
    /\ cache_statcast = NoCache
    /\ BlankInputs
    /\ BlankRun
    /\ pc = "classify"

\* lines 23-48 on the response
PipeClassify ==
    /\ pc = "classify"
    /\ \E out \in Classify(ResponseFrame(provider.rbi_col,
                                           provider.events_col,
                                           provider.rows)) :
          /\ statcast_df' = out.df
          /\ error' = out.err
          /\ pc' = IF out.raised THEN "error" ELSE "aggregate"
    /\ UNCHANGED <<worldVars, inputVars, player_id, served, df_filtered,
                   all_games, game_stats, trend_values, hit_rates, averages,
                   stat_line>>

\* line 164 on the classified events
PipeAggregate ==
    /\ pc = "aggregate"
    /\ all_games' = GroupByGame(statcast_df.rows)
    /\ pc' = "done"
    /\ UNCHANGED <<worldVars, inputVars, player_id, statcast_df, served,
                   df_filtered, game_stats, trend_values, hit_rates, averages,
                   stat_line, error>>

NextPipeline == PipeClassify \/ PipeAggregate

SpecPipeline == InitPipeline /\ [][NextPipeline]_vars

RECURSIVE SumFn(_, _)
SumFn(f, I) ==
    IF I = {} THEN 0
    ELSE LET i == CHOOSE x \in I : TRUE IN f[i] + SumFn(f, I \ {i})

Classified == pc \in {"aggregate", "done"}

\* C1: every classified plate appearance, whatever its outcome label, has
\* flags 1B, 2B, 3B, HR in {0, 1} with at most one of them set,
\* TB = 1*1B + 2*2B + 3*3B + 4*HR and H = 1B + 2B + 3B + HR.
C1_FlagsConsistent ==
    Classified =>
        \A i \in 1..Len(statcast_df.rows) :
            LET r == statcast_df.rows[i]
            IN  /\ {r.b1, r.b2, r.b3, r.hr} \subseteq {0, 1}
                /\ r.b1 + r.b2 + r.b3 + r.hr \in {0, 1}
                /\ r.tb = 1 * r.b1 + 2 * r.b2 + 3 * r.b3 + 4 * r.hr
                /\ r.h = r.b1 + r.b2 + r.b3 + r.hr

\* a home run and an outcome that is none of the four labels were classified
C1_Witness ==
    /\ Classified
    /\ Len(statcast_df.rows) = 2
    /\ statcast_df.rows[1].events = "home_run"
    /\ statcast_df.rows[1].tb = 4
    /\ statcast_df.rows[2].events = "strikeout"
    /\ statcast_df.rows[2].h = 0

EventsAt(d, o) ==
    {i \in 1..Len(statcast_df.rows) :
        statcast_df.rows[i].game_date = d /\ statcast_df.rows[i].opponent = o}

\* C2: the aggregation yields exactly one GameStatLine per distinct (game
\* date, opponent) pair of the events, and each of its seven fields is the
\* non-negative sum of that field over the events of that date and opponent;
\* a single and a home run in the same game give one line with TB 5 and H 2.
C2_AggregationSums ==
    pc = "done" =>
        LET ev == statcast_df.rows
            pairs == {<<ev[i].game_date, ev[i].opponent>> : i \in 1..Len(ev)}
        IN  /\ {<<g.game_date, g.opponent>> : g \in Range(all_games)} = pairs
            /\ Len(all_games) = Cardinality(pairs)
            /\ \A k \in 1..Len(all_games) :
                  LET g == all_games[k]
                      I == EventsAt(g.game_date, g.opponent)
                  IN  /\ I # {}
                      /\ \A c \in SumColumns :
                            /\ Field(g, c) >= 0
                            /\ Field(g, c) =
                                 SumFn([i \in I |-> Field(ev[i], c)], I)
            /\ (/\ Len(ev) = 2
                /\ {ev[1].events, ev[2].events} = {"single", "home_run"}
                /\ KeyOf(ev[1]) = KeyOf(ev[2]))
               => /\ Len(all_games) = 1
                  /\ all_games[1].tb = 5
                  /\ all_games[1].h = 2

\* a single and a home run of one game were summed into one line
C2_Witness ==
    /\ pc = "done"
    /\ Len(statcast_df.rows) = 2
    /\ statcast_df.rows[1].events = "single"
    /\ statcast_df.rows[2].events = "home_run"
    /\ Len(all_games) = 1
    /\ all_games[1].tb = 5
    /\ all_games[1].rbis = 2

-----------------------------------------------------------------------------
(* The last-10 selection over any set of games *)

\* every date has a game at SF; the first DoubleDays dates may also have a
\* home game against SD
GameKeys ==
    {k \in (1..MaxDate) \X {SF, SD} : k[2] = SF \/ k[1] <= DoubleDays}

MatchupAgainst(o) == CHOOSE m \in Matchups : Opponent(m) = o

\* one single per game of K, classified
EventsFor(K) ==
    LET keys == SortedKeys(K)
    IN  [i \in 1..Len(keys) |->
            ClassifyRow(RawRow(Ohtani, keys[i][1], MatchupAgainst(keys[i][2]),
                               "single", <<"1">>), TRUE)]

InitLast ==
    /\ BlankWorld
    /\ BlankInputs
    /\ player_id = Ohtani
    /\ served = NotServed
    /\ df_filtered = NoFrame
    /\ game_stats = <<>>
    /\ trend_values = <<>>
    /\ hit_rates = <<>>
    /\ averages = <<>>
    /\ stat_line = <<>>
    /\ error = NoError
    /\ \E K \in SUBSET GameKeys :
          /\ statcast_df = [columns |->
                               ClassifiedColumns(ResponseFrame(TRUE, TRUE, <<>>)),
                            rows |-> EventsFor(K)]
          /\ all_games = GroupByGame(EventsFor(K))
    /\ pc = "select"

\* line 165
SelectLast ==
    /\ pc = "select"
    /\ \E s \in LastGames(all_games) : game_stats' = s
    /\ pc' = "done"
    /\ UNCHANGED <<worldVars, inputVars, player_id, statcast_df, served,
                   df_filtered, all_games, trend_values, hit_rates, averages,
                   stat_line, error>>

NextLast == SelectLast

SpecLast == InitLast /\ [][NextLast]_vars

\* C10: the last-10 selection holds min(10, total) of the aggregated lines,
\* no omitted line is later than an included one, and the selection is in
\* ascending order of game date.
C10_LastTenMostRecent ==
    pc = "done" =>
        LET sel == Range(game_stats)
            omitted == Range(all_games) \ sel
        IN  /\ Len(game_stats) = Min(10, Len(all_games))
            /\ sel \subseteq Range(all_games)
            /\ Cardinality(sel) = Len(game_stats)
            /\ \A o \in omitted : \A g \in sel : o.game_date <= g.game_date
            /\ \A i \in 1..(Len(game_stats) - 1) :
                  game_stats[i].game_date <= game_stats[i + 1].game_date

\* more than 10 games, with two games of one date on the edge of the selection
C10_Witness ==
    /\ pc = "done"
    /\ Len(all_games) > 10
    /\ Len(game_stats) = 10
    /\ \E o \in Range(all_games) \ Range(game_stats) :
          o.game_date = game_stats[1].game_date

-----------------------------------------------------------------------------
(* The trend evaluator over any sequence of games *)

\* the aggregated line of a game at SF with v home runs
HomerGame(d, v) ==
    GameLine([i \in 1..v |->
                 ClassifyRow(RawRow(Ohtani, d, MatchupAgainst(SF), "home_run",
                                    <<"1">>), TRUE)],
             <<d, SF>>)

\* what the user types into the threshold box: the default, a zero among
\* tokens that are no digits, and nothing
TrendInputs ==
    {<<"1", ",", "2">>,
     <<" ", "0", " ", ",", "x", ",", "-", "1">>,
     <<>>}

\* threshold lists of a direct caller of calculate_hit_rates
DirectThresholds == {<<0 - 1, MaxVal>>}

\* the categories selected in SpecTrend: no, one and four units per
\* home run
TrendCategories == {"1B", "HR", "TB"}

InitTrend ==
    /\ BlankWorld
    /\ player_name = <<>>
    /\ opponent_input = <<>>
    /\ category \in TrendCategories
    /\ trend_input = <<>>
    /\ player_id = Ohtani
    /\ statcast_df = NoFrame
    /\ served = NotServed
    /\ df_filtered = NoFrame
    /\ all_games = <<>>
    /\ game_stats = <<>>
    /\ trend_values = <<>>
    /\ hit_rates = <<>>
    /\ averages = <<>>
    /\ stat_line = <<>>
    /\ error = NoError
    /\ pc = "input"

\* lines 160-161 and 192: the user types the thresholds
TrendSetInput ==
    /\ pc = "input"
    /\ \E inp \in TrendInputs :
          /\ trend_input' = inp
          /\ trend_values' = ParseTrendValues(inp)
    /\ hit_rates' = calculate_hit_rates(game_stats, category, trend_values')
    /\ pc' = "games"
    /\ UNCHANGED <<worldVars, player_name, opponent_input, category,
                   player_id, statcast_df, served, df_filtered, all_games,
                   game_stats, averages, stat_line, error>>

\* calculate_hit_rates called with a list of integers that is no parse
TrendDirectCall ==
    /\ pc = "input"
    /\ \E ts \in DirectThresholds :
          /\ trend_input' = <<"#">>
          /\ trend_values' = ts
    /\ hit_rates' = calculate_hit_rates(game_stats, category, trend_values')
    /\ pc' = "games"
    /\ UNCHANGED <<worldVars, player_name, opponent_input, category,
                   player_id, statcast_df, served, df_filtered, all_games,
                   game_stats, averages, stat_line, error>>

\* a game is played and the table is recomputed (line 192): the first
\* FreeGames games take any value, the later ones MaxVal - 1 or MaxVal
TrendAddGame ==
    /\ pc = "games"
    /\ Len(game_stats) < MaxGames
    /\ \E v \in 0..MaxVal :
          /\ Len(game_stats) < FreeGames \/ v >= MaxVal - 1
          /\ game_stats' =
                Append(game_stats, HomerGame(Len(game_stats) + 1, v))
    /\ hit_rates' = calculate_hit_rates(game_stats', category, trend_values)
    /\ UNCHANGED <<worldVars, inputVars, pc, player_id, statcast_df, served,
                   df_filtered, all_games, trend_values, averages, stat_line,
                   error>>

NextTrend == TrendSetInput \/ TrendDirectCall \/ TrendAddGame

SpecTrend == InitTrend /\ [][NextTrend]_vars

CategoryValues == [i \in 1..Len(game_stats) |-> Field(game_stats[i], category)]

\* the games of the window: the last min(W, available)
WindowGames(W) ==
    {i \in 1..Len(game_stats) : i > Len(game_stats) - Min(W, Len(game_stats))}

CellCounts(cell, W, t) ==
    /\ cell.count = Cardinality({i \in WindowGames(W) : CategoryValues[i] >= t})
    /\ cell.denom = W
    /\ 2 * cell.pct * W - 200 * cell.count <= W
    /\ 200 * cell.count - 2 * cell.pct * W <= W

\* C3: for every threshold t, calculate_hit_rates reports for each window W
\* of 10, 5, 3 the number of games among the last min(W, available) whose
\* category value is >= t, over the denominator W, with the percentage
\* count/W*100 to the nearest integer; HR, t = 1 and games [0,1,0,2,1] give
\* 2/3 (67%) and 3/5 (60%).
C3_HitRates ==
    /\ Len(hit_rates) = Len(trend_values)
    /\ \A k \in 1..Len(hit_rates) :
          LET row == hit_rates[k]
              t == trend_values[k]
          IN  /\ row.t = t
              /\ CellCounts(row.last10, 10, t)
              /\ CellCounts(row.last5, 5, t)
              /\ CellCounts(row.last3, 3, t)
              /\ (category = "HR" /\ t = 1 /\ CategoryValues = <<0, 1, 0, 2, 1>>)
                 => /\ row.last3 = [count |-> 2, denom |-> 3, pct |-> 67]
                    /\ row.last5 = [count |-> 3, denom |-> 5, pct |-> 60]

\* HR, t = 1 and games [0,1,0,2,1]: 2/3, 3/5 and 3/10
C3_Witness ==
    /\ category = "HR"
    /\ CategoryValues = <<0, 1, 0, 2, 1>>
    /\ Len(hit_rates) = 2
    /\ hit_rates[1].t = 1
    /\ hit_rates[1].last3.pct = 67
    /\ hit_rates[1].last10 = [count |-> 3, denom |-> 10, pct |-> 30]

ZeroTyped ==
    \E x \in Range(Split(trend_input, ",")) : Strip(x) = <<"0">>

ZeroRows == {k \in 1..Len(hit_rates) : hit_rates[k].t = 0}

\* C7 as stated: a threshold of 0 is accepted by the parser and the three
\* percentages are 100% for any sequence of games.
C7_AllWindowsFull ==
    ZeroTyped =>
        /\ ZeroRows # {}
        /\ \A k \in ZeroRows :
              /\ hit_rates[k].last10.pct = 100
              /\ hit_rates[k].last5.pct = 100
              /\ hit_rates[k].last3.pct = 100

ZeroCell(cell, W) ==
    /\ cell.count = Min(W, Len(game_stats))
    /\ cell.denom = W
    /\ (cell.pct = 100) = (Len(game_stats) >= W)

\* C7, amended: a threshold of 0 is accepted by the parser and counts every
\* game of each window as a hit, so the window of W reports min(W, n) of W
\* for n games, which is 100% exactly when at least W games are available.
C7_ZeroThreshold ==
    ZeroTyped =>
        /\ ZeroRows # {}
        /\ \A k \in ZeroRows :
              /\ ZeroCell(hit_rates[k].last10, 10)
              /\ ZeroCell(hit_rates[k].last5, 5)
              /\ ZeroCell(hit_rates[k].last3, 3)

\* ten games, some of them without a home run, all hits at threshold 0
C7_Witness ==
    /\ ZeroTyped
    /\ category = "HR"
    /\ Len(game_stats) = 10
    /\ CategoryValues[1] = 0
    /\ hit_rates[1].t = 0
    /\ hit_rates[1].last10.pct = 100
    /\ hit_rates[1].last3.pct = 100

-----------------------------------------------------------------------------
(* The predictor over any three averages *)

PredictInputs == {Avg(k, AvgDen) : k \in (0 - 1)..MaxAvgNum} \cup {NaN}

InitPredict ==
    /\ BlankWorld
    /\ BlankInputs
    /\ player_id = Ohtani
    /\ statcast_df = NoFrame
    /\ served = NotServed
    /\ df_filtered = NoFrame
    /\ all_games = <<>>
    /\ game_stats = <<>>
    /\ trend_values = <<>>
    /\ hit_rates = <<>>
    /\ averages \in {category :> t :
                       t \in PredictInputs \X PredictInputs \X PredictInputs}
    /\ stat_line = <<>>
    /\ error = NoError
    /\ pc = "predict"

\* line 202 for one category
PredictOne ==
    /\ pc = "predict"
    /\ \E out \in predict_next_game_stat(averages[category][1],
                                          averages[category][2],
                                          averages[category][3]) :
          stat_line' = (category :> out)
    /\ pc' = "done"
    /\ UNCHANGED <<worldVars, inputVars, player_id, statcast_df, served,
                   df_filtered, all_games, game_stats, trend_values, hit_rates,
                   averages, error>>

NextPredict == PredictOne

SpecPredict == InitPredict /\ [][NextPredict]_vars

Abs(x) == IF x < 0 THEN 0 - x ELSE x

AllNumbers == \A i \in 1..3 : ~averages[category][i].nan

\* C4: predict_next_game_stat returns 0.4*season + 0.3*vs_opponent +
\* 0.3*recent rounded to two decimals (a hundredth nearest to the blend),
\* with no clamping; equal inputs x, x, x give x rounded to two decimals, and
\* 0.30, 0.50, 0.20 give 0.33.
C4_WeightedBlend ==
    (pc = "done" /\ AllNumbers) =>
        LET s == averages[category][1]
            v == averages[category][2]
            r == averages[category][3]
            c == stat_line[category].c
        IN  /\ ~stat_line[category].nan
            /\ Abs(2 * c * s.d * v.d * r.d
                   - 2 * (40 * s.n * v.d * r.d + 30 * v.n * s.d * r.d
                          + 30 * r.n * s.d * v.d))
                 <= s.d * v.d * r.d
            /\ (s = v /\ v = r) => Abs(2 * c * s.d - 200 * s.n) <= s.d
            /\ (/\ 10 * s.n = 3 * s.d
                /\ 2 * v.n = v.d
                /\ 5 * r.n = r.d) => c = 33

\* 0.30, 0.50 and 0.20 blended to 0.33
C4_Witness ==
    /\ pc = "done"
    /\ averages[category] = <<Avg(6, 20), Avg(10, 20), Avg(4, 20)>>
    /\ stat_line[category] = Hundredths(33)

-----------------------------------------------------------------------------
(* The application: reruns of the script within one process *)

\* what the user types as the player name, in words and spaces; the empty
\* name leaves the page as it is (line 93)
PlayerNames ==
    {<<"Shohei", " ", "Ohtani">>, <<"Babe", " ", "Nobody">>, <<"Ohtani">>, <<>>}

\* what the user types as the opponent filter
OpponentInputs == {<<>>, <<"s", "f">>, <<"N", "Y", "Y">>}

AppCategories == {"HR", "TB"}

DefaultTrendInput == <<"1", ",", "2">>

\* playerid_lookup(last, first).iloc[0]['key_mlbam']: the register's row, or
\* an exception (no row, or the register out of reach)
PlayerIdLookup(last, first) ==
    IF last = <<"Ohtani">> /\ first = <<"Shohei">>
    THEN {[raised |-> FALSE, id |-> Ohtani], [raised |-> TRUE, id |-> None]}
    ELSE {[raised |-> TRUE, id |-> None]}

\* the plate appearances the provider may hold: one at the start of the
\* first window, two of today's home game, one of tomorrow
AppPool ==
    <<RawRow(Ohtani, 0, MatchupAgainst(SF), "single", <<>>),
      RawRow(Ohtani, WindowDays, MatchupAgainst(SD), "home_run", <<>>),
      RawRow(Ohtani, WindowDays, MatchupAgainst(SD), Null, <<>>),
      RawRow(Ohtani, WindowDays + 1, MatchupAgainst(SF), "double", <<>>)>>

AppDatabases ==
    {SelectSeq(AppPool, LAMBDA r : r \in K) : K \in SUBSET Range(AppPool)}

\* statcast_batter(start, end, player_id): the batter's rows of the window,
\* or an exception; without an identity the provider refuses or finds nothing
StatcastBatter(start, end, id) ==
    IF id = None
    THEN {Raised("ProviderError"), Returned(NoFrame)}
    ELSE {Raised("ProviderError"),
          Returned(ResponseFrame(provider.rbi_col, provider.events_col,
                                 SelectSeq(provider.rows,
                                           LAMBDA r : /\ r.batter = id
                                                      /\ r.game_date >= start
                                                      /\ r.game_date <= end)))}

Init ==
    /\ today = WindowDays
    /\ provider \in {[rbi_col |-> FALSE, events_col |-> e, rows |-> db] :
                        e \in BOOLEAN, db \in AppDatabases}
    /\ cache_ids = NoCache
    /\ cache_statcast = NoCache
    /\ BlankInputs
    /\ BlankRun
    /\ pc = "idle"

Resting == pc \in {"idle", "done", "error"}

runVars ==
    <<player_id, statcast_df, served, df_filtered, all_games, game_stats,
      trend_values, hit_rates, averages, stat_line, error>>

\* the date changes between two runs
AdvanceDay ==
    /\ Resting
    /\ today < WindowDays + MaxAdvance
    /\ today' = today + 1
    /\ UNCHANGED <<provider, cache_ids, cache_statcast, pc, inputVars, runVars>>

\* lines 92-93: a widget changes and the script runs from the top
Rerun ==
    /\ Resting
    /\ player_name' \in PlayerNames
    /\ opponent_input' \in OpponentInputs
    /\ category' \in AppCategories
    /\ trend_input' = DefaultTrendInput
    /\ player_id' = None
    /\ statcast_df' = NoFrame
    /\ served' = NotServed
    /\ df_filtered' = NoFrame
    /\ all_games' = <<>>
    /\ game_stats' = <<>>
    /\ trend_values' = <<>>
    /\ hit_rates' = <<>>
    /\ averages' = <<>>
    /\ stat_line' = <<>>
    /\ error' = NoError
    /\ pc' = IF player_name' = <<>> THEN "done" ELSE "resolve"
    /\ UNCHANGED worldVars

\* the catch-all of lines 225-226
Fail(e) ==
    /\ error' = e
    /\ pc' = "error"

NameParts == Split(player_name, " ")

\* line 95: first, last = player_name.split(" ") with other than two parts
SplitNameFails ==
    /\ pc = "resolve"
    /\ Len(NameParts) # 2
    /\ Fail("ValueError")
    /\ UNCHANGED <<worldVars, inputVars, player_id, statcast_df, served,
                   df_filtered, all_games, game_stats, trend_values, hit_rates,
                   averages, stat_line>>

\* lines 10-15 and 96: get_player_id, memoized on (first, last)
ResolvePlayer ==
    /\ pc = "resolve"
    /\ Len(NameParts) = 2
    /\ LET key == <<NameParts[1], NameParts[2]>>
       IN  IF key \in DOMAIN cache_ids
           THEN /\ player_id' = cache_ids[key]
                /\ UNCHANGED cache_ids
           ELSE \E out \in PlayerIdLookup(NameParts[2], NameParts[1]) :
                   /\ player_id' = (IF out.raised THEN None ELSE out.id)
                   /\ cache_ids' = (key :> player_id') @@ cache_ids
    /\ pc' = "statcast"
    /\ UNCHANGED <<today, provider, cache_statcast, inputVars, statcast_df,
                   served, df_filtered, all_games, game_stats, trend_values,
                   hit_rates, averages, stat_line, error>>

\* lines 17-18 and 97: the memo of get_statcast_data holds the argument
StatcastFromCache ==
    /\ pc = "statcast"
    /\ player_id \in DOMAIN cache_statcast
    /\ statcast_df' = cache_statcast[player_id].df
    /\ served' = [from_cache |-> TRUE, queried |-> FALSE, key |-> player_id,
                  end |-> cache_statcast[player_id].end, asked |-> today]
    /\ pc' = "filter"
    /\ UNCHANGED <<worldVars, inputVars, player_id, df_filtered, all_games,
                   game_stats, trend_values, hit_rates, averages, stat_line,
                   error>>

\* lines 17-48 and 97: get_statcast_data runs; its result is memoized when
\* it returns
StatcastFetch ==
    /\ pc = "statcast"
    /\ player_id \notin DOMAIN cache_statcast
    /\ served' = [from_cache |-> FALSE, queried |-> TRUE, key |-> player_id,
                  end |-> today, asked |-> today]
    /\ \E resp \in StatcastBatter(today - WindowDays, today, player_id) :
          IF resp.raised
          THEN /\ Fail(resp.err)
               /\ UNCHANGED <<statcast_df, cache_statcast>>
          ELSE \E out \in Classify(resp.df) :
                  IF out.raised
                  THEN /\ Fail(out.err)
                       /\ UNCHANGED <<statcast_df, cache_statcast>>
                  ELSE /\ statcast_df' = out.df
                       /\ cache_statcast' =
                             (player_id :> [df |-> out.df, end |-> today])
                                @@ cache_statcast
                       /\ pc' = "filter"
                       /\ UNCHANGED error
    /\ UNCHANGED <<today, provider, cache_ids, inputVars, player_id,
                   df_filtered, all_games, game_stats, trend_values, hit_rates,
                   averages, stat_line>>

\* lines 99-100
FilterOpponent ==
    /\ pc = "filter"
    /\ IF opponent_input = <<>>
       THEN /\ df_filtered' = statcast_df
            /\ pc' = "bio"
            /\ UNCHANGED error
       ELSE IF "opponent" \notin statcast_df.columns
       THEN /\ Fail("KeyError")
            /\ UNCHANGED df_filtered
       ELSE /\ df_filtered' =
                  [statcast_df EXCEPT !.rows =
                      SelectSeq(statcast_df.rows,
                                LAMBDA r : StrContains(r.opponent, opponent_input))]
            /\ pc' = "bio"
            /\ UNCHANGED error
    /\ UNCHANGED <<worldVars, inputVars, player_id, statcast_df, served,
                   all_games, game_stats, trend_values, hit_rates, averages,
                   stat_line>>

\* lines 102-117: statsapi.get("person", {"personId": player_id}); the
\* request fails without an identity, and may fail with one
PlayerBio ==
    /\ pc = "bio"
    /\ \/ /\ player_id # None
          /\ pc' = "buttons"
          /\ UNCHANGED error
       \/ Fail("ProviderError")
    /\ UNCHANGED <<worldVars, inputVars, player_id, statcast_df, served,
                   df_filtered, all_games, game_stats, trend_values, hit_rates,
                   averages, stat_line>>

\* lines 120-144: the season and career buttons, not pressed or pressed; a
\* pressed button queries batting_stats, which may fail
StatButtons ==
    /\ pc = "buttons"
    /\ \/ /\ pc' = "trend"
          /\ UNCHANGED error
       \/ Fail("ProviderError")
    /\ UNCHANGED <<worldVars, inputVars, player_id, statcast_df, served,
                   df_filtered, all_games, game_stats, trend_values, hit_rates,
                   averages, stat_line>>

\* lines 146-192: the aggregation, the last-10 selection and the hit rates
TrendAnalysis ==
    /\ pc = "trend"
    /\ IF ~(({"game_date", "opponent"} \cup SumColumns) \subseteq df_filtered.columns)
       THEN /\ Fail("KeyError")
            /\ UNCHANGED <<all_games, game_stats, trend_values, hit_rates>>
       ELSE /\ trend_values' = ParseTrendValues(trend_input)
            /\ all_games' = GroupByGame(df_filtered.rows)
            /\ \E s \in LastGames(all_games') : game_stats' = s
            /\ hit_rates' =
                  calculate_hit_rates(game_stats', category, trend_values')
            /\ pc' = "predict"
            /\ UNCHANGED error
    /\ UNCHANGED <<worldVars, inputVars, player_id, statcast_df, served,
                   df_filtered, averages, stat_line>>

\* line 196
PredictedCategories == {"1B", "2B", "3B", "HR", "TB"}

\* lines 199-201
AveragesFor(cat) ==
    <<Mean(DailySums(statcast_df.rows, cat)),
      IF Len(df_filtered.rows) # 0
      THEN Mean(DailySums(df_filtered.rows, cat))
      ELSE Avg(0, 1),
      Mean([i \in 1..Len(game_stats) |-> Field(game_stats[i], cat)])>>

\* line 202
PredictedValues(avgs) == predict_next_game_stat(avgs[1], avgs[2], avgs[3])

\* lines 194-211: the predicted stat line, when an opponent is given; the
\* percentages are round(value * 100), which raises on NaN
Prediction ==
    /\ pc = "predict"
    /\ IF opponent_input = <<>>
       THEN /\ pc' = "last10"
            /\ UNCHANGED <<averages, stat_line, error>>
       ELSE /\ averages' = [c \in PredictedCategories |-> AveragesFor(c)]
            /\ \E o1 \in PredictedValues(averages'["1B"]),
                  o2 \in PredictedValues(averages'["2B"]),
                  o3 \in PredictedValues(averages'["3B"]),
                  o4 \in PredictedValues(averages'["HR"]),
                  o5 \in PredictedValues(averages'["TB"]) :
                  stat_line' = [c \in PredictedCategories |->
                                   CASE c = "1B" -> o1 [] c = "2B" -> o2
                                     [] c = "3B" -> o3 [] c = "HR" -> o4
                                     [] OTHER -> o5]
            /\ IF \E c \in PredictedCategories \ {"TB"} : stat_line'[c].nan
               THEN Fail("ValueError")
               ELSE /\ pc' = "last10"
                    /\ UNCHANGED error
    /\ UNCHANGED <<worldVars, inputVars, player_id, statcast_df, served,
                   df_filtered, all_games, game_stats, trend_values, hit_rates>>

\* lines 217-218: the columns of the last-10 at-bats table
DisplayColumns ==
    {"game_date", "events", "description", "pitch_name", "launch_speed",
     "launch_angle", "hit_distance_sc"}

\* lines 214-222
Last10AtBats ==
    /\ pc = "last10"
    /\ IF "events" \notin statcast_df.columns
          \/ ~(DisplayColumns \subseteq statcast_df.columns)
       THEN Fail("KeyError")
       ELSE /\ pc' = "done"
            /\ UNCHANGED error
    /\ UNCHANGED <<worldVars, inputVars, player_id, statcast_df, served,
                   df_filtered, all_games, game_stats, trend_values, hit_rates,
                   averages, stat_line>>

Next ==
    \/ AdvanceDay
    \/ Rerun
    \/ SplitNameFails
    \/ ResolvePlayer
    \/ StatcastFromCache
    \/ StatcastFetch
    \/ FilterOpponent
    \/ PlayerBio
    \/ StatButtons
    \/ TrendAnalysis
    \/ Prediction
    \/ Last10AtBats

Spec == Init /\ [][Next]_vars

ZeroIfNaN(a) == IF a.nan THEN Avg(0, 1) ELSE a

\* C5: an average that is undefined (the mean over zero games) counts as 0
\* in the blend, so every predicted value is a number: the blend of the
\* averages with the undefined ones replaced by 0.
C5_UndefinedAverageIsZero ==
    DOMAIN stat_line = PredictedCategories =>
        \A c \in PredictedCategories :
            /\ ~stat_line[c].nan
            /\ stat_line[c] \in
                  predict_next_game_stat(ZeroIfNaN(averages[c][1]),
                                         ZeroIfNaN(averages[c][2]),
                                         ZeroIfNaN(averages[c][3]))

AfterStatcast ==
    pc \in {"filter", "bio", "buttons", "trend", "predict", "last10", "done",
            "error"}

\* C6: on an empty response get_statcast_data returns a zero-row result
\* that declares every field its callers project, so the run goes through
\* the opponent filter, the aggregation and the last-10 at-bats table
\* without a missing-field error, and the aggregation yields no line.
C6_EmptyResultHasAllFields ==
    (AfterStatcast /\ statcast_df = EmptyResult) =>
        /\ error # "KeyError"
        /\ all_games = <<>>

\* C8: a call of get_statcast_data returns a stored response only if that
\* response was fetched for the same player identity and the same 60-day
\* window; otherwise the provider is queried for the call's own window.
C8_MemoKeyedByWindow ==
    /\ served.from_cache =>
          /\ served.key = player_id
          /\ served.end = served.asked
    /\ served.queried =>
          /\ served.key = player_id
          /\ served.end = served.asked

Unresolved ==
    /\ pc \notin {"idle", "resolve"}
    /\ Len(NameParts) = 2
    /\ player_id = None

\* C9: when the player cannot be resolved, get_player_id yields no identity
\* without raising and the rest of the run shows empty results: no provider
\* is queried with the missing identity and no error is shown.
C9_UnresolvedPlayerIsNoData ==
    Unresolved =>
        /\ <<NameParts[1], NameParts[2]>> \in DOMAIN cache_ids
        /\ ~served.queried
        /\ error = NoError
        /\ pc \notin {"error"}

====
